---------------------------- MODULE Spec2Model ----------------------------
(***************************************************************************)
(* Model of statmach.py: State, its enter/exit hooks, and Machine with its *)
(* constructor, fire and scope close.                                      *)
(*                                                                         *)
(* The State objects exist from the start with empty action tables.  The   *)
(* caller wires the tables, constructs the machine around an initial       *)
(* state, fires events and closes the machine's scope.  The enter and exit *)
(* hooks are overridable methods: each invocation of a hook has one of the *)
(* outcomes a hook can have (the default outcome included), chosen by the  *)
(* caller's subclass, and is recorded in the trace of the call.            *)
(***************************************************************************)
EXTENDS Naturals, Sequences, FiniteSets

VARIABLES
    stateActions,    \* State.actions of every State object
    machineActions,  \* Machine.actions, the machine's own (default) table
    phase,           \* "wiring", "open", "closed" or "failed"
    state,           \* Machine.state, the current state
    initial,         \* the initial_state argument given to the constructor
    fired,           \* whether fire has been called since construction
    lastHook,        \* per State, the hook invoked on it most recently
    lastCall,        \* trace of the most recent operation on the machine
    value,           \* StateWithValue.value of every State (None: a plain State)
    inputs,          \* the events fired so far by the script of an example
    active,          \* the States entered and not exited since
    machines         \* the Machine objects of a program that has several

vars == <<stateActions, machineActions, phase, state, initial, fired,
          lastHook, lastCall, value, inputs, active, machines>>

\* Python's None.
None == "None"

\* The State objects, the events and the output values of the universe.
States == {"s0", "s1"}
Events == {"e1", "e2"}
Outputs == {"o1", "o2"}

\* Bound: total number of entries in all action tables.
MaxEntries == 2

\* Bound: number of events the script of an example machine fires.
MaxFires == 6

\* An action: the tuple (new state, new value).
Action(next, out) == [ok |-> TRUE, next |-> next, out |-> out]

\* StateWithValue.action pairing the state with no value.
ActionOfWithoutValue(s) == Action(s, None)

\* StateWithValue.action: the tuple (self, self.value)
ActionOf(s) == Action(s, value[s])

\* A table entry that is not a 2-tuple: unpacking it raises.
Malformed == [ok |-> FALSE, next |-> None, out |-> None]

ActionValues == {Action(s, o) : s \in States, o \in Outputs} \cup {Malformed}

\* self.actions = {}
EmptyActions == [e \in {} |-> Malformed]

\* actions[event] = action
Put(actions, event, action) ==
    [x \in DOMAIN actions \cup {event} |->
        IF x = event THEN action ELSE actions[x]]

\* new_state, new_value = <action>
Unpack(action) ==
    IF action.ok
    THEN [exc |-> None, next |-> action.next, out |-> action.out]
    ELSE [exc |-> "ValueError", next |-> None, out |-> None]

\* Resolve with the machine's table looked up first.
ResolveMachineFirst(state_actions, machine_actions, event) ==
    IF event \in DOMAIN machine_actions
    THEN Unpack(machine_actions[event])
    ELSE IF event \in DOMAIN state_actions
         THEN Unpack(state_actions[event])
         ELSE [exc |-> "KeyError", next |-> None, out |-> None]

\* Resolve without the fall-through to the machine's table.
ResolveStateOnly(state_actions, machine_actions, event) ==
    IF event \in DOMAIN state_actions
    THEN Unpack(state_actions[event])
    ELSE [exc |-> "KeyError", next |-> None, out |-> None]

\* state_actions[event] if event in state_actions.keys() else machine_actions[event]
Resolve(state_actions, machine_actions, event) ==
    IF event \in DOMAIN state_actions
    THEN Unpack(state_actions[event])
    ELSE IF event \in DOMAIN machine_actions
         THEN Unpack(machine_actions[event])
         ELSE [exc |-> "KeyError", next |-> None, out |-> None]

\* Outcomes of one invocation of __enter__: the State it returns (self by
\* default), None, or "raise".
EnterResults == States \cup {None, "raise"}

\* Outcomes of one invocation of __exit__: the bool it returns (false by
\* default) or "raise".
ExitResults == {"false", "true", "raise"}

\* State.__enter__, as invoked on `on` with outcome `res`.
EnterCall(on, res) == [hook |-> "enter", on |-> on, exc |-> None, res |-> res]

\* State.__exit__, as invoked on `on` with the failure in flight `exc`
\* (None when there is none) and outcome `res`.
ExitCall(on, exc, res) == [hook |-> "exit", on |-> on, exc |-> exc, res |-> res]

\* Reraises with the exit hook's answer ignored: the failure always propagates.
ReraisesAlways(exitRes) == TRUE

\* Reraises with the exit hook's answer ignored: the failure never propagates.
ReraisesNever(exitRes) == FALSE

\* if not state.__exit__(*sys.exc_info()): raise
Reraises(exitRes) == exitRes # "true"

\* After a swallowed failure the call goes on to another state.
SwallowedStateLeaves(current) == CHOOSE s \in States : s # current

\* new_state = state, after __exit__ has dealt with the exception
SwallowedState(current) == current

\* The except clause of fire: the current state's exit is offered the failure.
Intercept(current, failure, exitRes) ==
    LET call == ExitCall(current, failure, exitRes)
    IN  IF exitRes = "raise"
        THEN [hooks |-> <<call>>, raised |-> "HookError", new_state |-> None]
        ELSE IF Reraises(exitRes)
             THEN [hooks |-> <<call>>, raised |-> failure, new_state |-> None]
             ELSE [hooks |-> <<call>>, raised |-> None,
                   new_state |-> SwallowedState(current)]

\* IsTransition with the identity test dropped: every resolved action exits
\* and enters.
IsTransitionAlways(new_state, current) == TRUE

\* if new_state is not state
IsTransition(new_state, current) == new_state # current

\* Transition with the new state entered before the current one is exited.
TransitionEnterFirst(current, new_state, exitRes, enterRes) ==
    LET exitCall == ExitCall(current, None, exitRes)
        enterCall == EnterCall(new_state, enterRes)
    IN  IF enterRes = "raise"
        THEN [hooks |-> <<enterCall>>, raised |-> "HookError", state |-> current]
        ELSE IF exitRes = "raise"
             THEN [hooks |-> <<enterCall, exitCall>>, raised |-> "HookError",
                   state |-> current]
             ELSE [hooks |-> <<enterCall, exitCall>>, raised |-> None,
                   state |-> enterRes]

\* Transition followed by a comparison of the event sets handled before and
\* after it, failing when they differ.
TransitionChecked(current, new_state, exitRes, enterRes) ==
    LET exitCall == ExitCall(current, None, exitRes)
        enterCall == EnterCall(new_state, enterRes)
    IN  IF exitRes = "raise"
        THEN [hooks |-> <<exitCall>>, raised |-> "HookError", state |-> current]
        ELSE IF enterRes = "raise"
             THEN [hooks |-> <<exitCall, enterCall>>, raised |-> "HookError",
                   state |-> current]
             ELSE IF /\ enterRes # None
                     /\ DOMAIN stateActions[enterRes] \cup DOMAIN machineActions
                          # DOMAIN stateActions[current] \cup DOMAIN machineActions
                  THEN [hooks |-> <<exitCall, enterCall>>,
                        raised |-> "InvariantViolation", state |-> enterRes]
                  ELSE [hooks |-> <<exitCall, enterCall>>, raised |-> None,
                        state |-> enterRes]

\* Transition in which an exit that returns true keeps the machine in the
\* current state, as it does for a failure.
TransitionExitVeto(current, new_state, exitRes, enterRes) ==
    LET exitCall == ExitCall(current, None, exitRes)
        enterCall == EnterCall(new_state, enterRes)
    IN  IF exitRes = "raise"
        THEN [hooks |-> <<exitCall>>, raised |-> "HookError", state |-> current]
        ELSE IF exitRes = "true"
             THEN [hooks |-> <<exitCall>>, raised |-> None, state |-> current]
             ELSE IF enterRes = "raise"
                  THEN [hooks |-> <<exitCall, enterCall>>,
                        raised |-> "HookError", state |-> current]
                  ELSE [hooks |-> <<exitCall, enterCall>>, raised |-> None,
                        state |-> enterRes]

\* Transition in which a failure of the exit is dropped and the new state is
\* entered all the same.
TransitionExitFailureDropped(current, new_state, exitRes, enterRes) ==
    LET exitCall == ExitCall(current, None, exitRes)
        enterCall == EnterCall(new_state, enterRes)
    IN  IF enterRes = "raise"
        THEN [hooks |-> <<exitCall, enterCall>>, raised |-> "HookError",
              state |-> current]
        ELSE [hooks |-> <<exitCall, enterCall>>, raised |-> None,
              state |-> enterRes]

\* Transition that enters the new state without storing it as current.
TransitionStateNotStored(current, new_state, exitRes, enterRes) ==
    LET exitCall == ExitCall(current, None, exitRes)
        enterCall == EnterCall(new_state, enterRes)
    IN  IF exitRes = "raise"
        THEN [hooks |-> <<exitCall>>, raised |-> "HookError", state |-> current]
        ELSE IF enterRes = "raise"
             THEN [hooks |-> <<exitCall, enterCall>>, raised |-> "HookError",
                   state |-> current]
             ELSE [hooks |-> <<exitCall, enterCall>>, raised |-> None,
                   state |-> current]

\* Transition that offers a failure of enter to the exit of the new state.
TransitionEnterFailureOffered(current, new_state, exitRes, enterRes) ==
    LET exitCall == ExitCall(current, None, exitRes)
        enterCall == EnterCall(new_state, enterRes)
    IN  IF exitRes = "raise"
        THEN [hooks |-> <<exitCall>>, raised |-> "HookError", state |-> current]
        ELSE IF enterRes = "raise"
             THEN [hooks |-> <<exitCall, enterCall,
                               ExitCall(new_state, "HookError", "false")>>,
                   raised |-> "HookError", state |-> current]
             ELSE [hooks |-> <<exitCall, enterCall>>, raised |-> None,
                   state |-> enterRes]

\* Transition that stores the entered state, whatever its enter returns.
TransitionInstallsTarget(current, new_state, exitRes, enterRes) ==
    LET exitCall == ExitCall(current, None, exitRes)
        enterCall == EnterCall(new_state, enterRes)
    IN  IF exitRes = "raise"
        THEN [hooks |-> <<exitCall>>, raised |-> "HookError", state |-> current]
        ELSE IF enterRes = "raise"
             THEN [hooks |-> <<exitCall, enterCall>>, raised |-> "HookError",
                   state |-> current]
             ELSE [hooks |-> <<exitCall, enterCall>>, raised |-> None,
                   state |-> new_state]

\* Transition that enters the new state without exiting the current one.
TransitionWithoutExit(current, new_state, exitRes, enterRes) ==
    LET enterCall == EnterCall(new_state, enterRes)
    IN  IF enterRes = "raise"
        THEN [hooks |-> <<enterCall>>, raised |-> "HookError", state |-> current]
        ELSE [hooks |-> <<enterCall>>, raised |-> None, state |-> enterRes]

\* The body of `if new_state is not state`: exit the current state, enter the
\* new one and store what enter returns as the current state.
Transition(current, new_state, exitRes, enterRes) ==
    LET exitCall == ExitCall(current, None, exitRes)
        enterCall == EnterCall(new_state, enterRes)
    IN  IF exitRes = "raise"
        THEN [hooks |-> <<exitCall>>, raised |-> "HookError", state |-> current]
        ELSE IF enterRes = "raise"
             THEN [hooks |-> <<exitCall, enterCall>>, raised |-> "HookError",
                   state |-> current]
             ELSE [hooks |-> <<exitCall, enterCall>>, raised |-> None,
                   state |-> enterRes]

\* A lookup that removes the entry it reads, as dict.pop does.
AfterLookupPopped(actions, event) ==
    [k \in DOMAIN actions \ {event} |-> actions[k]]

\* The table after `event in actions.keys()` and `actions[event]`: reading a
\* dict adds, removes and replaces no entry.
AfterLookup(actions, event) == actions

\* The resolution recorded for a call that resolves no event.
NoResolution == [exc |-> None, next |-> None, out |-> None]

\* Machine.fire: the machine's state after the call, the hooks invoked in
\* order, the failure raised (None if the call returns), the value returned
\* and the resolution of the event (new_state, new_value or its failure).
FireResult(current, state_actions, machine_actions, event, exitRes, enterRes) ==
    IF current = None
    THEN \* state.actions, and then state.__exit__, of None
         [state |-> current, hooks |-> <<>>, raised |-> "AttributeError",
          ret |-> None, resolved |-> NoResolution]
    ELSE
    LET r == Resolve(state_actions, machine_actions, event)
        i == Intercept(current, r.exc, exitRes)
        tried == IF r.exc = None
                 THEN [hooks |-> <<>>, raised |-> None, new_state |-> r.next,
                       new_value |-> r.out]
                 ELSE [hooks |-> i.hooks, raised |-> i.raised,
                       new_state |-> i.new_state, new_value |-> None]
        t == Transition(current, tried.new_state, exitRes, enterRes)
    IN  IF tried.raised # None
        THEN [state |-> current, hooks |-> tried.hooks, raised |-> tried.raised,
              ret |-> None, resolved |-> r]
        ELSE IF IsTransition(tried.new_state, current)
             THEN [state |-> t.state, hooks |-> tried.hooks \o t.hooks,
                   raised |-> t.raised,
                   ret |-> IF t.raised = None THEN tried.new_value ELSE None,
                   resolved |-> r]
             ELSE [state |-> current, hooks |-> tried.hooks, raised |-> None,
                   ret |-> tried.new_value, resolved |-> r]

\* InitResult with None accepted as the initial state and stored as current.
InitResultAcceptsNone(initial_state, enterRes) ==
    IF initial_state = None
    THEN [ok |-> TRUE, state |-> None, hooks |-> <<>>, raised |-> None]
    ELSE IF enterRes = "raise"
         THEN [ok |-> FALSE, state |-> None,
               hooks |-> <<EnterCall(initial_state, enterRes)>>,
               raised |-> "HookError"]
         ELSE [ok |-> TRUE, state |-> enterRes,
               hooks |-> <<EnterCall(initial_state, enterRes)>>,
               raised |-> None]

\* Machine.__init__: enter(initial_state) is stored as the current state.
InitResult(initial_state, enterRes) ==
    IF initial_state = None
    THEN \* type(None).__enter__
         [ok |-> FALSE, state |-> None, hooks |-> <<>>,
          raised |-> "AttributeError"]
    ELSE IF enterRes = "raise"
         THEN [ok |-> FALSE, state |-> None,
               hooks |-> <<EnterCall(initial_state, enterRes)>>,
               raised |-> "HookError"]
         ELSE [ok |-> TRUE, state |-> enterRes,
               hooks |-> <<EnterCall(initial_state, enterRes)>>,
               raised |-> None]

\* MachineExitHandled answering true: the machine's exit swallows.
MachineExitSwallows(exc) == TRUE

\* return False, the answer of State.__exit__ to the failure in flight `exc`
MachineExitHandled(exc) == FALSE

\* The machine's own __exit__, which Machine inherits from State: it invokes
\* nothing and returns false; the with statement then lets a failure in
\* flight propagate.
MachineExitResult(current, exc) ==
    [hooks |-> <<>>, handled |-> MachineExitHandled(exc),
     raised |-> IF MachineExitHandled(exc) THEN None ELSE exc]

\* Per State, the hook last invoked on it once `hooks` have run after `lh`.
HooksApplied(lh, hooks) ==
    [s \in DOMAIN lh |->
        LET on_s == {k \in DOMAIN hooks : hooks[k].on = s}
        IN  IF on_s = {} THEN lh[s]
            ELSE hooks[CHOOSE k \in on_s : \A j \in on_s : j <= k].hook]

\* The States left entered once `hooks` have run after `act`: an enter that
\* returns opens its State's context, an exit closes it.
RECURSIVE ActiveAfter(_, _)
ActiveAfter(act, hooks) ==
    IF hooks = <<>> THEN act
    ELSE LET h == Head(hooks)
             now == IF h.hook = "exit" THEN act \ {h.on}
                    ELSE IF h.res = "raise" THEN act
                    ELSE act \cup {h.on}
         IN  ActiveAfter(now, Tail(hooks))

\* Trace when no operation on the machine is the most recent event.
NoCall ==
    [op |-> "none", event |-> None, pre |-> None, hooks |-> <<>>,
     raised |-> None, ret |-> None, resolved |-> NoResolution, exc |-> None]

RECURSIVE EntriesOf(_)
EntriesOf(S) ==
    IF S = {} THEN 0
    ELSE LET s == CHOOSE x \in S : TRUE
         IN  Cardinality(DOMAIN stateActions[s]) + EntriesOf(S \ {s})

\* Number of entries in all tables.
Entries == Cardinality(DOMAIN machineActions) + EntriesOf(States)

Init ==
    /\ stateActions = [s \in States |-> EmptyActions]
    /\ machineActions = EmptyActions
    /\ phase = "wiring"
    /\ state = None
    /\ initial = None
    /\ fired = FALSE
    /\ lastHook = [s \in States |-> "none"]
    /\ lastCall = NoCall
    /\ value = [s \in States |-> None]
    /\ inputs = <<>>
    /\ active = {}
    /\ machines = <<>>

\* state.actions[event] = action, by the caller, for an event the table does
\* not hold yet
SetStateAction(s, event, action) ==
    /\ phase \in {"wiring", "open"}
    /\ event \notin DOMAIN stateActions[s]
    /\ Entries < MaxEntries
    /\ stateActions' = [stateActions EXCEPT ![s] = Put(@, event, action)]
    /\ lastCall' = NoCall
    /\ UNCHANGED <<machineActions, phase, state, initial, fired, lastHook,
                   value, inputs, active, machines>>

\* machine.actions[event] = action, by the caller, for an event the table does
\* not hold yet
SetMachineAction(event, action) ==
    /\ phase = "open"
    /\ event \notin DOMAIN machineActions
    /\ Entries < MaxEntries
    /\ machineActions' = Put(machineActions, event, action)
    /\ lastCall' = NoCall
    /\ UNCHANGED <<stateActions, phase, state, initial, fired, lastHook,
                   value, inputs, active, machines>>

\* Machine(initial_state=...) and the opening of its scope
Construct(initial_state, enterRes) ==
    /\ phase = "wiring"
    /\ LET r == InitResult(initial_state, enterRes)
       IN  /\ phase' = IF r.ok THEN "open" ELSE "failed"
           /\ state' = r.state
           /\ lastHook' = HooksApplied(lastHook, r.hooks)
           /\ active' = ActiveAfter(active, r.hooks)
           /\ lastCall' = [NoCall EXCEPT !.op = "init",
                                         !.hooks = r.hooks,
                                         !.raised = r.raised]
    /\ initial' = initial_state
    /\ machineActions' = EmptyActions
    /\ UNCHANGED <<stateActions, fired, value, inputs, machines>>

\* machine.fire(event=...), whoever calls it
FireStep(event, exitRes, enterRes) ==
    /\ phase = "open"
    /\ LET r == FireResult(state,
                           IF state = None THEN EmptyActions
                                           ELSE stateActions[state],
                           machineActions, event, exitRes, enterRes)
       IN  /\ state' = r.state
           /\ lastHook' = HooksApplied(lastHook, r.hooks)
           /\ active' = ActiveAfter(active, r.hooks)
           /\ lastCall' = [op |-> "fire", event |-> event, pre |-> state,
                           hooks |-> r.hooks,
                           raised |-> r.raised, ret |-> r.ret,
                           resolved |-> r.resolved, exc |-> None]
    /\ stateActions' = IF state = None THEN stateActions
                       ELSE [stateActions EXCEPT ![state] = AfterLookup(@, event)]
    /\ machineActions' = AfterLookup(machineActions, event)
    /\ fired' = TRUE
    /\ UNCHANGED <<phase, initial, value, machines>>

\* machine.fire(event=...), called by a caller that follows no script
Fire(event, exitRes, enterRes) ==
    /\ FireStep(event, exitRes, enterRes)
    /\ UNCHANGED inputs

\* The end of the machine's scope: machine.__exit__ with the failure in
\* flight, which is the failure the last fire raised, or None.
Close(exc) ==
    /\ phase = "open"
    /\ exc = None \/ (lastCall.op = "fire" /\ exc = lastCall.raised)
    /\ LET r == MachineExitResult(state, exc)
       IN  /\ lastHook' = HooksApplied(lastHook, r.hooks)
           /\ active' = ActiveAfter(active, r.hooks)
           /\ lastCall' = [NoCall EXCEPT !.op = "close", !.pre = state,
                                         !.hooks = r.hooks,
                                         !.raised = r.raised, !.exc = exc,
                                         !.ret = IF r.handled THEN "true"
                                                              ELSE "false"]
    /\ phase' = "closed"
    /\ UNCHANGED <<stateActions, machineActions, state, initial, fired,
                   value, inputs, machines>>

Next ==
    \/ \E s \in States, e \in Events, a \in ActionValues : SetStateAction(s, e, a)
    \/ \E e \in Events, a \in ActionValues : SetMachineAction(e, a)
    \/ \E s \in States \cup {None}, n \in EnterResults : Construct(s, n)
    \/ \E e \in Events, x \in ExitResults, n \in EnterResults : Fire(e, x, n)
    \/ \E exc \in {None, "KeyError", "ValueError", "HookError", "AttributeError"} :
           Close(exc)

Spec == Init /\ [][Next]_vars

\* The hooks as State defines them: __enter__ returns self, __exit__ returns
\* false.
DefaultHooks(hooks) ==
    \A k \in DOMAIN hooks :
        /\ hooks[k].hook = "enter" => hooks[k].res = hooks[k].on
        /\ hooks[k].hook = "exit" => hooks[k].res = "false"

\* The steps of a program whose States are plain State objects: no subclass
\* overrides a hook.
NextDefault ==
    \/ \E s \in States, e \in Events, a \in ActionValues : SetStateAction(s, e, a)
    \/ \E e \in Events, a \in ActionValues : SetMachineAction(e, a)
    \/ \E s \in States \cup {None}, n \in EnterResults :
           Construct(s, n) /\ DefaultHooks(lastCall'.hooks)
    \/ \E e \in Events, x \in ExitResults, n \in EnterResults :
           Fire(e, x, n) /\ DefaultHooks(lastCall'.hooks)
    \/ \E exc \in {None, "KeyError", "ValueError", "HookError", "AttributeError"} :
           Close(exc)

SpecDefault == Init /\ [][NextDefault]_vars

(***************************************************************************)
(* The example machines of the module's documentation, driven by a script  *)
(* that constructs the machine around plain State hooks and fires events.  *)
(***************************************************************************)

\* machine.fire(event=...) as a step of an example's script: the States keep
\* the hooks of State, and the script records the event it fired.
FireScripted(event) ==
    /\ Len(inputs) < MaxFires
    /\ \E n \in DOMAIN stateActions :
           /\ FireStep(event, "false", n)
           /\ DefaultHooks(lastCall'.hooks)
    /\ inputs' = Append(inputs, event)

\* Machine(initial_state=s) with the hooks of State
ConstructScripted(s) == Construct(s, s)

\* Bit = enum.Enum('Bit', 'ZERO ONE')
Bits == {"ZERO", "ONE"}

\* s_i, s_0, s_1
EdgeStates == {"i", "0", "1"}

\* s_i.actions = {...}, s_0.actions = {...}, s_1.actions = {...}
EdgeActions ==
    [s \in EdgeStates |->
        CASE s = "i" -> Put(Put(EmptyActions, "ZERO", Action("0", "ZERO")),
                            "ONE", Action("1", "ZERO"))
          [] s = "0" -> Put(Put(EmptyActions, "ZERO", Action("0", "ZERO")),
                            "ONE", Action("1", "ONE"))
          [] s = "1" -> Put(Put(EmptyActions, "ZERO", Action("0", "ONE")),
                            "ONE", Action("1", "ZERO"))]

\* The edge detector before `with Machine(initial_state=s_i)`.
InitEdge ==
    /\ stateActions = EdgeActions
    /\ machineActions = EmptyActions
    /\ phase = "wiring"
    /\ state = None
    /\ initial = None
    /\ fired = FALSE
    /\ lastHook = [s \in EdgeStates |-> "none"]
    /\ lastCall = NoCall
    /\ value = [s \in EdgeStates |-> None]
    /\ inputs = <<>>
    /\ active = {}
    /\ machines = <<>>

NextEdge ==
    \/ ConstructScripted("i")
    \/ \E e \in Bits : FireScripted(e)

SpecEdge == InitEdge /\ [][NextEdge]_vars

\* class Timeouts(enum.Enum)
Timeouts == {"RED_TIMEOUT", "AMBER_TIMEOUT", "GREEN_TIMEOUT", "ERROR"}

\* flashing_red, red, amber, green
TrafficStates == {"flashing_red", "red", "amber", "green"}

\* StateWithValue(ident=..., value=Outputs....)
TrafficValues ==
    [s \in TrafficStates |->
        CASE s = "flashing_red" -> "FLASHING_RED"
          [] s = "red" -> "RED"
          [] s = "amber" -> "AMBER"
          [] s = "green" -> "GREEN"]

\* 4a. The state actions, given the values of the states.
TrafficStateActions ==
    [s \in TrafficStates |->
        CASE s = "red" -> Put(EmptyActions, "RED_TIMEOUT", ActionOf("green"))
          [] s = "green" -> Put(EmptyActions, "GREEN_TIMEOUT", ActionOf("amber"))
          [] s = "amber" -> Put(EmptyActions, "AMBER_TIMEOUT", ActionOf("red"))
          [] s = "flashing_red" -> EmptyActions]

\* 4b. The machine actions.
TrafficMachineActions ==
    Put(Put(Put(Put(EmptyActions,
                    "RED_TIMEOUT", ActionOf("flashing_red")),
                "AMBER_TIMEOUT", ActionOf("flashing_red")),
            "GREEN_TIMEOUT", ActionOf("flashing_red")),
        "ERROR", ActionOf("flashing_red"))

\* The traffic light before `with Machine(initial_state=red)`.
InitTraffic ==
    /\ value = TrafficValues
    /\ stateActions = TrafficStateActions
    /\ machineActions = EmptyActions
    /\ phase = "wiring"
    /\ state = None
    /\ initial = None
    /\ fired = FALSE
    /\ lastHook = [s \in TrafficStates |-> "none"]
    /\ lastCall = NoCall
    /\ inputs = <<>>
    /\ active = {}
    /\ machines = <<>>

\* The four machine.actions[...] = flashing_red.action at the head of the
\* with block.
WireTraffic ==
    /\ phase = "open"
    /\ machineActions = EmptyActions
    /\ machineActions' = TrafficMachineActions
    /\ lastCall' = NoCall
    /\ UNCHANGED <<stateActions, phase, state, initial, fired, lastHook,
                   value, inputs, active, machines>>

\* A fire of the traffic light's script, which follows the wiring.
FireTraffic(event) ==
    /\ machineActions # EmptyActions
    /\ FireScripted(event)

NextTraffic ==
    \/ ConstructScripted("red")
    \/ WireTraffic
    \/ \E e \in Timeouts : FireTraffic(e)

SpecTraffic == InitTraffic /\ [][NextTraffic]_vars

(***************************************************************************)
(* A Moore machine: the States are StateWithValue objects and every table  *)
(* entry is the action accessor of one of them.                            *)
(***************************************************************************)

\* The enter hooks return self, as State.__enter__ does.
EnterReturnsSelf(hooks) ==
    \A k \in DOMAIN hooks : hooks[k].hook = "enter" => hooks[k].res = hooks[k].on

\* StateWithValue(ident=..., value=...) for each state, before any wiring.
InitMoore ==
    /\ value \in [States -> Outputs]
    /\ stateActions = [s \in States |-> EmptyActions]
    /\ machineActions = EmptyActions
    /\ phase = "wiring"
    /\ state = None
    /\ initial = None
    /\ fired = FALSE
    /\ lastHook = [s \in States |-> "none"]
    /\ lastCall = NoCall
    /\ inputs = <<>>
    /\ active = {}
    /\ machines = <<>>

NextMoore ==
    \/ \E s \in States, e \in Events, t \in States :
           SetStateAction(s, e, ActionOf(t))
    \/ \E e \in Events, t \in States : SetMachineAction(e, ActionOf(t))
    \/ \E s \in States : Construct(s, s)
    \/ \E e \in Events, x \in ExitResults, n \in States :
           Fire(e, x, n) /\ EnterReturnsSelf(lastCall'.hooks)
    \/ \E exc \in {None, "KeyError", "HookError"} : Close(exc)

SpecMoore == InitMoore /\ [][NextMoore]_vars

(***************************************************************************)
(* Two machines over the same State objects.  Each Machine object has its  *)
(* own state and its own table; the States and their tables are shared.   *)
(* The States are StateWithValue objects of the default value with the     *)
(* hooks of State, and every table entry is the action of one of them.     *)
(***************************************************************************)

\* The Machine objects of the program.
MachineIds == {"m1", "m2"}

\* A Machine object before its constructor has run.
Unconstructed == [state |-> None, actions |-> EmptyActions, phase |-> "wiring"]

\* Assignment to the state attribute of every Machine object.
AssignStateOfAll(ms, self, new_state) ==
    [m \in DOMAIN ms |-> [ms[m] EXCEPT !.state = new_state]]

\* self.state = ..., an assignment to an attribute of the object `self`
AssignState(ms, self, new_state) == [ms EXCEPT ![self].state = new_state]

\* Number of entries in the tables of the States and of all machines.
RECURSIVE MachineEntriesOf(_)
MachineEntriesOf(M) ==
    IF M = {} THEN 0
    ELSE LET m == CHOOSE x \in M : TRUE
         IN  Cardinality(DOMAIN machines[m].actions) + MachineEntriesOf(M \ {m})

InitTwo ==
    /\ machines = [m \in MachineIds |-> Unconstructed]
    /\ stateActions = [s \in States |-> EmptyActions]
    /\ machineActions = EmptyActions
    /\ phase = "wiring"
    /\ state = None
    /\ initial = None
    /\ fired = FALSE
    /\ lastHook = [s \in States |-> "none"]
    /\ lastCall = NoCall
    /\ value = [s \in States |-> None]
    /\ inputs = <<>>
    /\ active = {}

\* s.actions[event] = action while several machines exist
SetSharedStateAction(s, event, action) ==
    /\ Entries + MachineEntriesOf(MachineIds) < MaxEntries
    /\ SetStateAction(s, event, action)

\* Machine(initial_state=...) for the Machine object `self`
ConstructOn(self, initial_state, enterRes) ==
    /\ machines[self].phase = "wiring"
    /\ LET r == InitResult(initial_state, enterRes)
       IN  /\ machines' =
                  [AssignState(machines, self, r.state) EXCEPT
                       ![self].actions = EmptyActions,
                       ![self].phase = IF r.ok THEN "open" ELSE "failed"]
           /\ lastHook' = HooksApplied(lastHook, r.hooks)
           /\ active' = ActiveAfter(active, r.hooks)
           /\ lastCall' = [NoCall EXCEPT !.op = "init",
                                         !.hooks = r.hooks,
                                         !.raised = r.raised]
    /\ UNCHANGED <<stateActions, machineActions, phase, state, initial, fired,
                   value, inputs>>

\* self.actions[event] = action for the Machine object `self`
SetMachineActionOn(self, event, action) ==
    /\ machines[self].phase = "open"
    /\ event \notin DOMAIN machines[self].actions
    /\ Entries + MachineEntriesOf(MachineIds) < MaxEntries
    /\ machines' = [machines EXCEPT ![self].actions = Put(@, event, action)]
    /\ lastCall' = NoCall
    /\ UNCHANGED <<stateActions, machineActions, phase, state, initial, fired,
                   lastHook, value, inputs, active>>

\* self.fire(event=...) for the Machine object `self`
FireOn(self, event, exitRes, enterRes) ==
    /\ machines[self].phase = "open"
    /\ LET current == machines[self].state
           r == FireResult(current,
                           IF current = None THEN EmptyActions
                                             ELSE stateActions[current],
                           machines[self].actions, event, exitRes, enterRes)
       IN  /\ machines' = AssignState(machines, self, r.state)
           /\ lastHook' = HooksApplied(lastHook, r.hooks)
           /\ active' = ActiveAfter(active, r.hooks)
           /\ lastCall' = [op |-> "fire", event |-> event, pre |-> current,
                           hooks |-> r.hooks,
                           raised |-> r.raised, ret |-> r.ret,
                           resolved |-> r.resolved, exc |-> None]
    /\ stateActions' =
           IF machines[self].state = None THEN stateActions
           ELSE [stateActions EXCEPT
                     ![machines[self].state] = AfterLookup(@, event)]
    /\ UNCHANGED <<machineActions, phase, state, initial, fired, value, inputs>>

NextTwo ==
    \/ \E s \in States, e \in Events, t \in States :
           SetSharedStateAction(s, e, ActionOf(t))
    \/ \E m \in MachineIds, s \in States : ConstructOn(m, s, s)
    \/ \E m \in MachineIds, e \in Events, t \in States :
           SetMachineActionOn(m, e, ActionOf(t))
    \/ \E m \in MachineIds, e \in Events, n \in States :
           FireOn(m, e, "false", n) /\ DefaultHooks(lastCall'.hooks)

SpecTwo == InitTwo /\ [][NextTwo]_vars

(***************************************************************************)
(* Properties of Machine.fire, the constructor and the scope close.        *)
(***************************************************************************)

\* The most recent operation is a fire on a machine that has a current state.
Fired == lastCall.op = "fire" /\ lastCall.pre # None

\* The hooks invoked by the most recent operation all returned.
HooksReturned == \A k \in DOMAIN lastCall.hooks : lastCall.hooks[k].res # "raise"

\* The resolution of an event to the action `a`.
ResolvedTo(a) == [exc |-> None, next |-> a.next, out |-> a.out]

\* The events handled with `s` current: the keys of the machine's table and of
\* the table of `s`.
EventSet(s) == DOMAIN machineActions \cup DOMAIN stateActions[s]

\* The most recent fire failed to resolve its event and offered the failure to
\* the exit hook of the current state, which answered `res`.
Intercepted(res) ==
    /\ Fired
    /\ lastCall.resolved.exc # None
    /\ Len(lastCall.hooks) >= 1
    /\ lastCall.hooks[1] = ExitCall(lastCall.pre, lastCall.resolved.exc, res)

\* C1. State precedence: when the fired event is a key of the current state's
\* table and of the machine's table, fire resolves it to the state's entry:
\* new_state and new_value are those of the state's action, the value returned
\* is the state's output, and an enter hook, if invoked, is invoked on the
\* state's next state.  A malformed state entry fails; it does not fall through.
C1_StatePrecedence ==
    ( /\ Fired
      /\ lastCall.event \in DOMAIN stateActions[lastCall.pre]
      /\ lastCall.event \in DOMAIN machineActions )
    => LET a == stateActions[lastCall.pre][lastCall.event]
       IN  IF a.ok
           THEN /\ lastCall.resolved = ResolvedTo(a)
                /\ lastCall.raised = None => lastCall.ret = a.out
                /\ \A k \in DOMAIN lastCall.hooks :
                       lastCall.hooks[k].hook = "enter"
                           => lastCall.hooks[k].on = a.next
           ELSE lastCall.resolved.exc = "ValueError"

\* A fire that returned the state's output and moved to the state's next state
\* although the machine's entry for the event has another next state and
\* another output.
C1_Witness ==
    /\ Fired
    /\ lastCall.event \in DOMAIN stateActions[lastCall.pre]
    /\ lastCall.event \in DOMAIN machineActions
    /\ LET a == stateActions[lastCall.pre][lastCall.event]
           m == machineActions[lastCall.event]
       IN  /\ a.ok /\ m.ok /\ a.next # m.next /\ a.out # m.out
           /\ lastCall.raised = None
           /\ lastCall.ret = a.out
           /\ state = a.next

\* C2. Fall-through: when the fired event is not a key of the current state's
\* table and is a key of the machine's table with an action, fire resolves it
\* to the machine's action; the resolution raises nothing, no exit hook is
\* invoked with a failure, and when the hooks of the transition return, fire
\* returns the machine action's output.
C2_FallThrough ==
    ( /\ Fired
      /\ lastCall.event \notin DOMAIN stateActions[lastCall.pre]
      /\ lastCall.event \in DOMAIN machineActions
      /\ machineActions[lastCall.event].ok )
    => LET m == machineActions[lastCall.event]
       IN  /\ lastCall.resolved = ResolvedTo(m)
           /\ \A k \in DOMAIN lastCall.hooks : lastCall.hooks[k].exc = None
           /\ lastCall.raised \in {None, "HookError"}
           /\ HooksReturned => lastCall.raised = None /\ lastCall.ret = m.out

\* A fire of an event only the machine handles, which moved to another state.
C2_Witness ==
    /\ Fired
    /\ lastCall.event \notin DOMAIN stateActions[lastCall.pre]
    /\ lastCall.event \in DOMAIN machineActions
    /\ machineActions[lastCall.event].ok
    /\ lastCall.raised = None
    /\ lastCall.ret = machineActions[lastCall.event].out
    /\ state = machineActions[lastCall.event].next
    /\ state # lastCall.pre

\* C3. Enter/exit ordering: when fire resolves to a next state B that is not
\* the current state A, the first hook invoked is exit(A) with no failure;
\* enter(B) is invoked next, and only then, unless that exit raised; when
\* enter(B) returns B the call returns and B is the current state (in general
\* the current state is what enter(B) returned).
C3_ExitBeforeEnter ==
    ( /\ Fired
      /\ lastCall.resolved.exc = None
      /\ lastCall.resolved.next # lastCall.pre )
    => LET h == lastCall.hooks
           B == lastCall.resolved.next
       IN  /\ Len(h) >= 1
           /\ h[1].hook = "exit" /\ h[1].on = lastCall.pre /\ h[1].exc = None
           /\ IF h[1].res = "raise"
              THEN Len(h) = 1
              ELSE /\ Len(h) = 2
                   /\ h[2].hook = "enter" /\ h[2].on = B
                   /\ h[2].res = B => lastCall.raised = None /\ state = B
                   /\ lastCall.raised = None => state = h[2].res

\* A transition from A to B: exit(A), then enter(B), and B is current.
C3_Witness ==
    /\ Fired
    /\ lastCall.resolved.exc = None
    /\ lastCall.resolved.next # lastCall.pre
    /\ lastCall.hooks = <<ExitCall(lastCall.pre, None, "false"),
                          EnterCall(lastCall.resolved.next, lastCall.resolved.next)>>
    /\ lastCall.raised = None
    /\ state = lastCall.resolved.next

\* C4. Lazy initial entry: as long as fire has not been called, no enter and
\* no exit hook of any State has been invoked, neither by the construction of
\* the machine nor by the close of its scope.
C4_LazyInitialEntry ==
    (phase \in {"open", "closed"} /\ ~fired)
    => \A s \in States : lastHook[s] = "none"

\* C5. Failure swallow: when resolving the fired event fails, the failure is
\* offered to the exit hook of the current state, and if that hook returns
\* true, fire returns None, the current state is the one before the call, no
\* other hook is invoked and nothing is raised.
C5_FailureSwallowed ==
    /\ (Fired /\ lastCall.resolved.exc # None)
       => /\ Len(lastCall.hooks) >= 1
          /\ lastCall.hooks[1].hook = "exit"
          /\ lastCall.hooks[1].on = lastCall.pre
          /\ lastCall.hooks[1].exc = lastCall.resolved.exc
    /\ Intercepted("true")
       => /\ lastCall.raised = None
          /\ lastCall.ret = None
          /\ state = lastCall.pre
          /\ Len(lastCall.hooks) = 1

\* A fire of an event in neither table, swallowed by the current state's exit.
C5_Witness ==
    /\ Intercepted("true")
    /\ lastCall.resolved.exc = "KeyError"
    /\ lastCall.event \notin EventSet(lastCall.pre)
    /\ lastCall.raised = None
    /\ lastCall.ret = None
    /\ state = lastCall.pre

\* C6. Failure propagation: when resolving the fired event fails and the exit
\* hook of the current state, offered the failure, returns false, fire raises
\* that failure (KeyError for an event in neither table), returns no value and
\* invokes no other hook.
C6_FailurePropagated ==
    Intercepted("false")
    => /\ lastCall.raised = lastCall.resolved.exc
       /\ lastCall.event \notin EventSet(lastCall.pre)
              => lastCall.raised = "KeyError"
       /\ lastCall.ret = None
       /\ Len(lastCall.hooks) = 1

\* A fire of an event in neither table that raised KeyError.
C6_Witness ==
    /\ Intercepted("false")
    /\ lastCall.event \notin EventSet(lastCall.pre)
    /\ lastCall.raised = "KeyError"

\* C7. Unusable after a propagated failure: when fire re-raises a resolution
\* failure because the exit hook of the current state returned false, the
\* machine's current state is cleared.
C7_ClearedAfterPropagation ==
    (Intercepted("false") /\ lastCall.raised # None) => state = None

\* C8 as stated. Event-set invariant: a transition after which the set of
\* handled events differs from the set before it makes fire fail with an
\* InvariantViolation.
C8_EventSetInvariant ==
    ( /\ Fired
      /\ lastCall.resolved.exc = None
      /\ lastCall.resolved.next # lastCall.pre
      /\ HooksReturned
      /\ state # None
      /\ EventSet(state) # EventSet(lastCall.pre) )
    => lastCall.raised = "InvariantViolation"

\* C8 as amended. Fire compares no event sets: a transition whose hooks return
\* completes, also when the set of handled events differs afterwards: nothing
\* is raised, the resolved action's output is returned and what enter returned
\* is the current state.  No call raises an InvariantViolation.
C8_NoEventSetCheck ==
    /\ lastCall.raised # "InvariantViolation"
    /\ ( /\ Fired
         /\ lastCall.resolved.exc = None
         /\ lastCall.resolved.next # lastCall.pre
         /\ HooksReturned
         /\ state # None
         /\ EventSet(state) # EventSet(lastCall.pre) )
       => /\ lastCall.raised = None
          /\ lastCall.ret = lastCall.resolved.out
          /\ state = lastCall.hooks[2].res

\* A completed transition from a state that handles the fired event to a
\* state that does not handle it.
C8_Witness ==
    /\ Fired
    /\ lastCall.resolved.exc = None
    /\ lastCall.resolved.next # lastCall.pre
    /\ HooksReturned
    /\ state = lastCall.resolved.next
    /\ lastCall.event \in EventSet(lastCall.pre)
    /\ lastCall.event \notin EventSet(state)
    /\ lastCall.raised = None
    /\ lastCall.ret = lastCall.resolved.out

\* C9. Close exits the current state: closing the machine's scope after at
\* least one fire, with a current state present (entered, and not exited
\* since), invokes exit with no failure exactly once, on the current state.
C9_CloseExitsCurrent ==
    ( /\ lastCall.op = "close"
      /\ fired
      /\ lastCall.pre # None
      /\ lastHook[lastCall.pre] # "exit" )
    => /\ Len(lastCall.hooks) = 1
       /\ lastCall.hooks[1].hook = "exit"
       /\ lastCall.hooks[1].on = lastCall.pre
       /\ lastCall.hooks[1].exc = None

\* One step of C10: every exit invoked by the step is on a State whose last
\* hook was enter and which is not current after the step; every enter is on a
\* State whose last hook was not enter; a State that stops being current, or
\* is current when the scope closes, has had its exit invoked.
C10_Step ==
    /\ \A k \in DOMAIN lastCall'.hooks :
          LET h == lastCall'.hooks[k]
          IN  /\ h.hook = "exit" => lastHook[h.on] = "enter" /\ state' # h.on
              /\ h.hook = "enter" => lastHook[h.on] # "enter"
    /\ (state \in States /\ state' # state) => lastHook'[state] = "exit"
    /\ (fired' /\ phase' = "closed") => \A s \in States : lastHook'[s] # "enter"

\* C10. Exit exactly once per departure: over any sequence of fire calls and a
\* final close, the hook calls on every State alternate enter, exit, enter,
\* exit, ...; exit is invoked once each time the State stops being current and
\* never on a State that then remains current.
C10_ExitOncePerDeparture == [][C10_Step]_vars

\* C11. Current state never absent: after a construction that succeeds and
\* after every fire that returns, the machine's current state is a State; an
\* enter hook that returns None makes the call fail instead.
C11_StateNeverAbsent ==
    ( /\ phase \in {"open", "closed"}
      /\ lastCall.op \in {"init", "fire"}
      /\ lastCall.raised = None )
    => state \in States

\* C12. Construction with None as the initial state fails with an error and
\* yields no machine: no hook is invoked, nothing is stored as the current
\* state, and no machine in use was constructed from None.
C12_AbsentInitialStateFails ==
    /\ (lastCall.op = "init" /\ initial = None)
       => /\ phase = "failed"
          /\ lastCall.raised = "AttributeError"
          /\ lastCall.hooks = <<>>
          /\ state = None
    /\ phase \in {"open", "closed"} => initial \in States

\* A construction with None as the initial state, which raised.
C12_Witness ==
    /\ lastCall.op = "init"
    /\ initial = None
    /\ phase = "failed"
    /\ lastCall.raised = "AttributeError"

\* C13. Identity-preserving no-op: when fire resolves an action whose next
\* state is the current state, no hook of any State is invoked, the current
\* state is unchanged, nothing is raised and fire returns the action's output.
C13_IdentityNoOp ==
    ( /\ Fired
      /\ lastCall.resolved.exc = None
      /\ lastCall.resolved.next = lastCall.pre )
    => /\ lastCall.hooks = <<>>
       /\ state = lastCall.pre
       /\ lastCall.raised = None
       /\ lastCall.ret = lastCall.resolved.out

\* A fire of an event whose action leads to the current state.
C13_Witness ==
    /\ Fired
    /\ lastCall.resolved.exc = None
    /\ lastCall.resolved.next = lastCall.pre
    /\ lastCall.ret \in Outputs
    /\ state = lastCall.pre

\* C14. Failing enter of the initial state: when the enter hook of the initial
\* state raises, the failure reaches the caller and, by then, the exit hook of
\* that state has been invoked once after the failed enter.
C14_ExitAfterFailedInitialEnter ==
    ( /\ lastCall.op = "init"
      /\ Len(lastCall.hooks) >= 1
      /\ lastCall.hooks[1] = EnterCall(initial, "raise") )
    => /\ lastCall.raised = "HookError"
       /\ lastHook[initial] = "exit"

\* The state of the edge detector that stands for the bit `b`.
BitState(b) == IF b = "ZERO" THEN "0" ELSE "1"

\* The output the edge detector owes for the n-th event of `seq`: ZERO for the
\* first, ONE exactly when the event differs from the one before it.
EdgeOutput(seq, n) ==
    IF n > 1 /\ seq[n] # seq[n - 1] THEN "ONE" ELSE "ZERO"

\* C15. Edge detector: started in i, every fire of a ZERO/ONE sequence returns
\* without raising; the first output is ZERO, every later output is ONE exactly
\* when the event differs from the previous event and ZERO otherwise; after
\* each fire the current state is the state of the bit just fired, so i is
\* never current again.
C15_EdgeDetector ==
    Len(inputs) >= 1 =>
        /\ lastCall.op = "fire"
        /\ lastCall.event = inputs[Len(inputs)]
        /\ lastCall.raised = None
        /\ lastCall.ret = EdgeOutput(inputs, Len(inputs))
        /\ state = BitState(inputs[Len(inputs)])
        /\ state # "i"

\* The script ZERO, ONE, ONE: a rising edge reported, then a level held.
C15_Witness ==
    /\ inputs = <<"ZERO", "ONE", "ONE">>
    /\ lastCall.op = "fire"
    /\ lastCall.pre = "1"
    /\ lastCall.ret = "ZERO"
    /\ state = "1"

\* C16. Traffic light: with the machine defaults wired, each of the four
\* events resolves in every state of the light and every fire returns without
\* raising; an event other than the current state's own timeout leads to
\* flashing_red; flashing_red once current stays current for every event and
\* every output is then FLASHING_RED.
C16_TrafficLight ==
    /\ (phase = "open" /\ machineActions # EmptyActions) =>
           \A e \in Timeouts :
               Resolve(stateActions[state], machineActions, e).exc = None
    /\ Len(inputs) >= 1 =>
           /\ lastCall.op = "fire"
           /\ lastCall.raised = None
           /\ lastCall.event \notin DOMAIN stateActions[lastCall.pre]
                  => state = "flashing_red"
           /\ lastCall.pre = "flashing_red" =>
                  /\ state = "flashing_red"
                  /\ lastCall.ret = "FLASHING_RED"

\* A full cycle red, green, amber, red, then the timeout of another state:
\* the light falls to flashing_red and a further event leaves it there.
C16_Witness ==
    /\ inputs = <<"RED_TIMEOUT", "GREEN_TIMEOUT", "AMBER_TIMEOUT",
                  "GREEN_TIMEOUT", "RED_TIMEOUT">>
    /\ lastCall.op = "fire"
    /\ lastCall.pre = "flashing_red"
    /\ lastCall.ret = "FLASHING_RED"
    /\ state = "flashing_red"

\* C17. Moore output: when every table entry is the action accessor of a
\* StateWithValue and the enter hooks return self, a fire that resolves an
\* action and returns normally returns the value of the state that is current
\* after the call.
C17_MooreOutput ==
    ( /\ Fired
      /\ lastCall.resolved.exc = None
      /\ lastCall.raised = None )
    => /\ state \in States
       /\ state = lastCall.resolved.next
       /\ lastCall.ret = value[state]

\* A transition between two states of different values that returned the
\* value of the state entered.
C17_Witness ==
    /\ Fired
    /\ lastCall.resolved.exc = None
    /\ lastCall.raised = None
    /\ state # lastCall.pre
    /\ lastCall.hooks = <<ExitCall(lastCall.pre, None, "false"),
                          EnterCall(state, state)>>
    /\ value[state] # value[lastCall.pre]
    /\ lastCall.ret = value[state]

\* C18. Close never swallows: the machine's own exit returns false whether or
\* not a failure is in flight, so a failure in flight at the close of the
\* scope, the one fire raised included, is raised to the enclosing caller.
C18_CloseNeverSwallows ==
    lastCall.op = "close"
    => /\ lastCall.ret = "false"
       /\ lastCall.raised = lastCall.exc

\* A close with the KeyError of the last fire in flight, which propagates.
C18_Witness ==
    /\ lastCall.op = "close"
    /\ lastCall.exc = "KeyError"
    /\ lastCall.ret = "false"
    /\ lastCall.raised = "KeyError"

\* C19. Exit's return value is ignored on a normal transition: when fire
\* resolves to a next state that is not the current state and the exit of the
\* current state returns, true or false, the next state is entered; when its
\* enter returns, what it returned is the current state and fire returns the
\* action's output.
C19_ExitAnswerIgnored ==
    ( /\ Fired
      /\ lastCall.resolved.exc = None
      /\ lastCall.resolved.next # lastCall.pre
      /\ Len(lastCall.hooks) >= 1
      /\ lastCall.hooks[1].res \in {"true", "false"} )
    => /\ Len(lastCall.hooks) = 2
       /\ lastCall.hooks[2].hook = "enter"
       /\ lastCall.hooks[2].on = lastCall.resolved.next
       /\ lastCall.hooks[2].res # "raise"
              => /\ lastCall.raised = None
                 /\ state = lastCall.hooks[2].res
                 /\ lastCall.ret = lastCall.resolved.out

\* A transition completed although the exit of the state left returned true.
C19_Witness ==
    /\ Fired
    /\ lastCall.resolved.exc = None
    /\ lastCall.resolved.next # lastCall.pre
    /\ lastCall.hooks = <<ExitCall(lastCall.pre, None, "true"),
                          EnterCall(lastCall.resolved.next, lastCall.resolved.next)>>
    /\ lastCall.raised = None
    /\ state = lastCall.resolved.next
    /\ lastCall.ret = lastCall.resolved.out

\* C20. Failing exit on a normal transition: when the exit of the current
\* state, invoked with no failure for a transition, raises, fire raises that
\* failure, no enter and no second exit is invoked, and the current state is
\* the one before the call.
C20_FailingExitPropagates ==
    ( /\ Fired
      /\ lastCall.resolved.exc = None
      /\ lastCall.resolved.next # lastCall.pre
      /\ Len(lastCall.hooks) >= 1
      /\ lastCall.hooks[1] = ExitCall(lastCall.pre, None, "raise") )
    => /\ lastCall.raised = "HookError"
       /\ Len(lastCall.hooks) = 1
       /\ state = lastCall.pre
       /\ lastCall.ret = None

\* A transition abandoned because the exit of the current state raised.
C20_Witness ==
    /\ Fired
    /\ lastCall.resolved.exc = None
    /\ lastCall.resolved.next # lastCall.pre
    /\ lastCall.hooks = <<ExitCall(lastCall.pre, None, "raise")>>
    /\ lastCall.raised = "HookError"
    /\ state = lastCall.pre

\* C21. Failing enter on a transition: when the enter of the next state
\* raises, fire raises that failure, the enter is the last hook of the call,
\* no exit is invoked with a failure in flight, and the current state is the
\* one before the call, not the next state.
C21_FailingEnterPropagates ==
    ( /\ Fired
      /\ lastCall.resolved.exc = None
      /\ \E k \in DOMAIN lastCall.hooks :
             lastCall.hooks[k] = EnterCall(lastCall.resolved.next, "raise") )
    => /\ lastCall.raised = "HookError"
       /\ lastCall.hooks[Len(lastCall.hooks)]
              = EnterCall(lastCall.resolved.next, "raise")
       /\ \A k \in DOMAIN lastCall.hooks :
              lastCall.hooks[k].hook = "exit" => lastCall.hooks[k].exc = None
       /\ state = lastCall.pre
       /\ state # lastCall.resolved.next
       /\ lastCall.ret = None

\* A transition whose exit returned and whose enter raised.
C21_Witness ==
    /\ Fired
    /\ lastCall.resolved.exc = None
    /\ lastCall.resolved.next # lastCall.pre
    /\ lastCall.hooks = <<ExitCall(lastCall.pre, None, "false"),
                          EnterCall(lastCall.resolved.next, "raise")>>
    /\ lastCall.raised = "HookError"
    /\ state = lastCall.pre

\* The steps of C22: a fire whose enter returned makes the returned object the
\* current state; a fire resolves its event against the table of the state
\* that was current when it was called, together with the machine's table.
C22_Step ==
    /\ ( /\ lastCall'.op = "fire"
         /\ lastCall'.hooks # <<>>
         /\ lastCall'.hooks[Len(lastCall'.hooks)].hook = "enter"
         /\ lastCall'.hooks[Len(lastCall'.hooks)].res # "raise" )
       => /\ lastCall'.hooks[Len(lastCall'.hooks)].on = lastCall'.resolved.next
          /\ state' = lastCall'.hooks[Len(lastCall'.hooks)].res
    /\ ( /\ lastCall'.op = "fire"
         /\ state \in States )
       => /\ lastCall'.pre = state
          /\ lastCall'.resolved =
                 Resolve(stateActions[state], machineActions, lastCall'.event)

\* C22. Enter may substitute the state: after a transition to B the current
\* state is the object enter(B) returned, also when it is not B, and the next
\* event is resolved against the table of that object.
C22_EnterSubstitutes == [][C22_Step]_vars

\* A fire resolved in the table of a state that is current because an enter
\* returned it: the state entered by the transition (it is not the initial
\* state) is still active and holds no entry for the event, the current state
\* was exited and never entered again.
C22_Witness ==
    /\ Fired
    /\ state = lastCall.pre
    /\ lastCall.hooks = <<>>
    /\ lastCall.resolved.exc = None
    /\ lastHook[state] = "exit"
    /\ \E b \in States \ {state} :
           /\ active = {b}
           /\ b # initial
           /\ lastCall.event \notin DOMAIN stateActions[b]
    /\ lastCall.event \in DOMAIN stateActions[state]
    /\ lastCall.event \notin DOMAIN machineActions

\* The most recent operation is a construction or a fire that returned.
ReturnedNormally ==
    /\ lastCall.op \in {"init", "fire"}
    /\ lastCall.raised = None

\* C23, as stated. Exactly one active state: after construction and after
\* every fire that returns normally, no State other than the current state is
\* entered and not exited.
C23_OneActiveState ==
    (ReturnedNormally /\ state \in States) => active \subseteq {state}

\* The steps of C23: a construction or a fire in which every enter that
\* returned returned the State it was invoked on.
C23_Step ==
    ( /\ lastCall'.op \in {"init", "fire"}
      /\ \A k \in DOMAIN lastCall'.hooks :
             LET h == lastCall'.hooks[k]
             IN  (h.hook = "enter" /\ h.res # "raise") => h.res = h.on )
    => (active' \ {state'}) \subseteq (active \ {state})

\* C23, amended. A construction or a fire, returning or raising, whose enter
\* hook returns the State it was invoked on leaves no State other than the
\* current state entered and not exited that was not so before the call; only
\* an enter that returns another object leaves its State entered without
\* being current.
C23_NoStrayActiveState == [][C23_Step]_vars

\* A transition with the hooks of State after which the state entered is the
\* one active State and the current state.
C23_Witness ==
    /\ Fired
    /\ lastCall.raised = None
    /\ state # lastCall.pre
    /\ lastCall.hooks = <<ExitCall(lastCall.pre, None, "false"),
                          EnterCall(state, state)>>
    /\ lastHook[lastCall.pre] = "exit"
    /\ active = {state}

\* The steps of C24: a step that is a fire on one machine leaves every other
\* machine's current state and table as they were.
C24_Step ==
    \A m \in MachineIds :
        (\E e \in Events, n \in States : FireOn(m, e, "false", n))
        => \A o \in MachineIds \ {m} :
               /\ machines'[o].state = machines[o].state
               /\ machines'[o].actions = machines[o].actions

\* C24. Machines sharing States are independent: a fire on one machine never
\* changes the current state or the default table of another machine, also
\* when both refer to the same State objects.
C24_MachinesIndependent == [][C24_Step]_vars

\* One machine has left, by a transition, the State that is still the current
\* state of the other machine, whose own table holds an entry.
C24_Witness ==
    /\ lastCall.op = "fire"
    /\ lastCall.resolved.exc = None
    /\ lastCall.resolved.next # lastCall.pre
    /\ lastCall.hooks = <<ExitCall(lastCall.pre, None, "false"),
                          EnterCall(lastCall.resolved.next,
                                    lastCall.resolved.next)>>
    /\ \E m \in MachineIds, o \in MachineIds :
           /\ m # o
           /\ machines[m].state = lastCall.resolved.next
           /\ machines[o].phase = "open"
           /\ machines[o].state = lastCall.pre
           /\ machines[o].actions # EmptyActions

\* The steps of C25: a fire leaves every table as it was.
C25_Step ==
    lastCall'.op = "fire"
    => /\ stateActions' = stateActions
       /\ machineActions' = machineActions

\* C25. With the hooks of State, fire never modifies an action table: after a
\* fire, returning or raising, the machine's table and every State's table
\* hold the entries they held before the call.
C25_TablesUnchanged == [][C25_Step]_vars

\* A transition resolved from the state's table, for an event the machine's
\* table holds too: both entries are still there after the call.
C25_Witness ==
    /\ Fired
    /\ lastCall.resolved.exc = None
    /\ state # lastCall.pre
    /\ lastCall.hooks = <<ExitCall(lastCall.pre, None, "false"),
                          EnterCall(state, state)>>
    /\ lastCall.event \in DOMAIN stateActions[lastCall.pre]
    /\ lastCall.event \in DOMAIN machineActions
    /\ lastCall.resolved = ResolvedTo(stateActions[lastCall.pre][lastCall.event])

\* The exit hooks and the enter hooks among the hooks of the most recent call.
HooksOfKind(kind) == {k \in DOMAIN lastCall.hooks : lastCall.hooks[k].hook = kind}

\* C26. A single fire invokes at most one exit and at most one enter; the
\* exit is on the state current at the start of the call, the enter comes
\* right after that exit, and an exit invoked with a failure is the only hook
\* of its call.
C26_HooksPerFire ==
    lastCall.op = "fire"
    => /\ Cardinality(HooksOfKind("exit")) <= 1
       /\ Cardinality(HooksOfKind("enter")) <= 1
       /\ \A k \in HooksOfKind("exit") :
              /\ k = 1
              /\ lastCall.hooks[k].on = lastCall.pre
              /\ lastCall.hooks[k].exc # None => Len(lastCall.hooks) = 1
       /\ \A k \in HooksOfKind("enter") :
              /\ k = 2
              /\ lastCall.hooks[1].hook = "exit"
              /\ lastCall.hooks[1].exc = None

\* A malformed entry whose failure the exit of the current state swallowed:
\* that exit is the one hook of the call and the state stays current.
C26_Witness ==
    /\ Fired
    /\ lastCall.resolved.exc = "ValueError"
    /\ lastCall.hooks = <<ExitCall(lastCall.pre, "ValueError", "true")>>
    /\ lastCall.raised = None
    /\ state = lastCall.pre

====
